---------------------------- MODULE Spec2Model ----------------------------
(***************************************************************************)
(* Model of the geocoding cache, resolver and batch resolver of            *)
(* calendar-maps-app (src/src/lib/geocoding.ts) and of the /api/geocode    *)
(* route built on them (src/unnamed/part_009, lines 278-512).              *)
(*                                                                         *)
(* Strings are tuples of one-character strings, so that toLowerCase, trim  *)
(* and the two coordinate patterns are computed character by character.    *)
(* Coordinates are integers counting tenths of a degree: the addresses of  *)
(* the model carry at most one fractional digit.                           *)
(***************************************************************************)
EXTENDS Integers, Sequences, FiniteSets, TLC

VARIABLES
    geocodeCache,   \* the Map of geocoding.ts:10, as the sequence of its entries in Map order
    now,            \* Date.now()
    apiKey,         \* whether process.env.GOOGLE_MAPS_API_KEY is set
    lastOp,         \* the last operation and what it returned to its caller
    putLog,         \* keys put since the cache was last emptied, or Tainted
    calls,          \* the geocodeAddress invocations of single callers, by slot
    batch,          \* the one batchGeocodeAddresses invocation and its local state
    enrich,         \* the one enrichEventsWithLocations invocation and its local state
    breaker,        \* a CircuitBreaker (error-handler.ts:242-298) and its pending execute
    retry           \* the one retryWithBackoff invocation (error-handler.ts:215-237)

vars == <<geocodeCache, now, apiKey, lastOp, putLog, calls, batch, enrich, breaker, retry>>

\* null or undefined is the empty tuple, a value x is <<x>>
None == <<>>
Some(x) == <<x>>

-----------------------------------------------------------------------------
(* Bounds of the model *)

MaxTime == 3
MaxPuts == 4
\* slots for concurrently suspended calls of geocodeAddress
NSlots == 2
\* longest address list handed to a batch
MaxBatchLen == 3
\* longest list of points handed to calculateBounds
MaxPoints == 3
\* longest list of events handed to enrichEventsWithLocations
MaxEvents == 3
\* longest list of events handed to filterEvents, and to sortEvents
MaxFiltered == 2
MaxSorted == 3
\* largest maxRetries handed to retryWithBackoff
MaxRetries == 4

(* Program constants, scaled down to a checkable size *)

\* geocoding.ts:15, CACHE_TTL = 60 * 60 * 1000 ms; one unit of `now` is 30 min
CACHE_TTL == 2
\* geocoding.ts:20, MAX_CACHE_SIZE = 1000
MAX_CACHE_SIZE == 2
\* part_009:393, the route's limit of 100 addresses per batch request
MAX_BATCH_SIZE == 2
\* part_009:423, the concurrency the route passes to batchGeocodeAddresses
ROUTE_PARALLEL == 5
\* geocoding.ts:236, parallel = 5: the default concurrency of batchGeocodeAddresses
DEFAULT_PARALLEL == 2
\* error-handler.ts:248-249: maxFailures (5) and resetTimeoutMs (60000) of a
\* CircuitBreaker, scaled
MAX_FAILURES == 2
RESET_TIMEOUT_MS == 1

-----------------------------------------------------------------------------
(* Strings *)

Upper == <<"A","B","C","D","E","F","G","H","I","J","K","L","M",
           "N","O","P","Q","R","S","T","U","V","W","X","Y","Z">>
Lower == <<"a","b","c","d","e","f","g","h","i","j","k","l","m",
           "n","o","p","q","r","s","t","u","v","w","x","y","z">>
DigitChars == <<"0","1","2","3","4","5","6","7","8","9">>
WhiteSpace == {" ", "\t", "\n"}

DigitSet == {DigitChars[i] : i \in 1..10}
DigitOf == [c \in DigitSet |-> (CHOOSE i \in 1..10 : DigitChars[i] = c) - 1]
IsDigit(c) == c \in DigitSet
DigitValue(c) == DigitOf[c]

UpperSet == {Upper[i] : i \in 1..26}
LowerOf == [c \in UpperSet |-> Lower[CHOOSE i \in 1..26 : Upper[i] = c]]
toLowerCaseChar(c) == IF c \in UpperSet THEN LowerOf[c] ELSE c

toLowerCase(s) == [i \in 1..Len(s) |-> toLowerCaseChar(s[i])]

\* String.prototype.trim: strip the leading and the trailing white space
trim(s) ==
    LET ink == {i \in 1..Len(s) : s[i] \notin WhiteSpace}
    IN  IF ink = {} THEN <<>>
        ELSE LET first == CHOOSE i \in ink : \A j \in ink : i <= j
                 last  == CHOOSE i \in ink : \A j \in ink : j <= i
             IN  SubSeq(s, first, last)

\* geocoding.ts:25-27
getCacheKeyNoTrim(address) == toLowerCase(address)
getCacheKey(address) == trim(toLowerCase(address))


-----------------------------------------------------------------------------
(* Coordinate parser, geocoding.ts:104-133 *)

AllDigits(s, i, j) == \A k \in i..j : IsDigit(s[k])
AllSpace(s, i, j) == \A k \in i..j : s[k] \in WhiteSpace

\* s[i..j] matches -?\d+\.?\d*
NumMatch(s, i, j) ==
    /\ 1 <= i /\ i <= j /\ j <= Len(s)
    /\ LET k == IF s[i] = "-" THEN i + 1 ELSE i
       IN  /\ k <= j
           /\ \E d \in k..j :
                /\ AllDigits(s, k, d)
                /\ \/ d = j
                   \/ d < j /\ s[d + 1] = "." /\ AllDigits(s, d + 2, j)

RECURSIVE DigitsValue(_, _, _)
\* the integer written by the digits s[i..j]
DigitsValue(s, i, j) ==
    IF j < i THEN 0 ELSE DigitsValue(s, i, j - 1) * 10 + DigitValue(s[j])

\* parseFloat of s[i..j], a match of NumMatch, in tenths of a degree
parseFloat(s, i, j) ==
    LET neg  == s[i] = "-"
        k    == IF neg THEN i + 1 ELSE i
        dots == {d \in k..j : s[d] = "."}
        dot  == IF dots = {} THEN j + 1 ELSE CHOOSE d \in dots : TRUE
        int  == DigitsValue(s, k, dot - 1)
        frac == IF dot + 1 <= j THEN DigitValue(s[dot + 1]) ELSE 0
        abs  == int * 10 + frac
    IN  IF neg THEN 0 - abs ELSE abs

\* a match of /\((-?\d+\.?\d*),\s*(-?\d+\.?\d*)\)/ that starts at s[i] and ends at s[e]
ParenMatchAt(s, i, c, w, e) ==
    /\ s[i] = "("
    /\ NumMatch(s, i + 1, c - 1)
    /\ s[c] = ","
    /\ AllSpace(s, c + 1, w - 1)
    /\ NumMatch(s, w, e - 1)
    /\ s[e] = ")"

Positions(s, c) == {i \in 1..Len(s) : s[i] = c}

ParenMatches(s) ==
    {m \in Positions(s, "(") \X Positions(s, ",") \X (1..Len(s)) \X Positions(s, ")") :
        /\ m[1] < m[2] /\ m[2] < m[3] /\ m[3] < m[4]
        /\ ParenMatchAt(s, m[1], m[2], m[3], m[4])}

\* a match of /^(-?\d+\.?\d*)\s*,\s*(-?\d+\.?\d*)$/ : <<end of the first number,
\* comma, start of the second number>>
CoordMatches(s) ==
    {m \in (1..Len(s)) \X Positions(s, ",") \X (1..Len(s)) :
        /\ m[1] < m[2] /\ m[2] < m[3]
        /\ NumMatch(s, 1, m[1])
        /\ AllSpace(s, m[1] + 1, m[2] - 1)
        /\ AllSpace(s, m[2] + 1, m[3] - 1)
        /\ NumMatch(s, m[3], Len(s))}

NoCoordinates == [address |-> <<>>, found |-> FALSE, lat |-> 0, lng |-> 0]

\* a variant that leaves the parenthesized pair in the address
parseCoordinatesFromLocationKeepAddress(location) ==
    LET pm == ParenMatches(location)
        cm == CoordMatches(location)
    IN  IF pm # {}
        THEN LET m == CHOOSE x \in pm : \A y \in pm : x[1] <= y[1]
             IN  [address |-> location,
                  found   |-> TRUE,
                  lat     |-> parseFloat(location, m[1] + 1, m[2] - 1),
                  lng     |-> parseFloat(location, m[3], m[4] - 1)]
        ELSE IF cm # {}
        THEN LET m == CHOOSE x \in cm : TRUE
             IN  [address |-> location,
                  found   |-> TRUE,
                  lat     |-> parseFloat(location, 1, m[1]),
                  lng     |-> parseFloat(location, m[3], Len(location))]
        ELSE [NoCoordinates EXCEPT !.address = location]

parseCoordinatesFromLocation(location) ==
    LET pm == ParenMatches(location)
        cm == CoordMatches(location)
    IN  IF pm # {}
        THEN \* String.match returns the leftmost match
             LET m == CHOOSE x \in pm : \A y \in pm : x[1] <= y[1]
             IN  [address |-> trim(SubSeq(location, 1, m[1] - 1)
                                   \o SubSeq(location, m[4] + 1, Len(location))),
                  found   |-> TRUE,
                  lat     |-> parseFloat(location, m[1] + 1, m[2] - 1),
                  lng     |-> parseFloat(location, m[3], m[4] - 1)]
        ELSE IF cm # {}
        THEN LET m == CHOOSE x \in cm : TRUE
             IN  [address |-> location,
                  found   |-> TRUE,
                  lat     |-> parseFloat(location, 1, m[1]),
                  lng     |-> parseFloat(location, m[3], Len(location))]
        ELSE [NoCoordinates EXCEPT !.address = location]

\* geocoding.ts:138-140, in tenths of a degree
isValidCoordinates(lat, lng) ==
    lat >= -900 /\ lat <= 900 /\ lng >= -1800 /\ lng <= 1800

-----------------------------------------------------------------------------
(* The addresses of the model *)

A_Ab      == <<"A", "b">>
A_ab      == <<"a", "b">>
A_padded  == <<" ", "a", "B", " ">>
A_c       == <<"c">>
A_blank   == <<" ">>
A_empty   == <<>>
\* "4,-7.5": a bare pair, in range
A_bare    == <<"4", ",", "-", "7", ".", "5">>
\* "R(3, 5)": a parenthesized pair, in range
A_paren   == <<"R", "(", "3", ",", " ", "5", ")">>
\* "(91,0)": a parenthesized pair, latitude out of range
A_far     == <<"(", "9", "1", ",", "0", ")">>

-----------------------------------------------------------------------------
(* GeocodeCache, geocoding.ts:10-98 and 330-349 *)

\* the position of `key` in the Map, or 0
IndexOf(cache, key) ==
    IF \E i \in 1..Len(cache) : cache[i].key = key
    THEN CHOOSE i \in 1..Len(cache) : cache[i].key = key
    ELSE 0

\* Map.prototype.delete
MapDelete(cache, key) ==
    LET keep == {i \in 1..Len(cache) : cache[i].key # key}
        RECURSIVE Pick(_)
        Pick(i) == IF i > Len(cache) THEN <<>>
                   ELSE IF i \in keep THEN <<cache[i]>> \o Pick(i + 1)
                   ELSE Pick(i + 1)
    IN  Pick(1)

\* Map.prototype.set: a present key keeps its place in the iteration order
MapSetAppend(cache, key, entry) == Append(cache, entry)
MapSet(cache, key, entry) ==
    LET i == IndexOf(cache, key)
    IN  IF i = 0 THEN Append(cache, entry) ELSE [cache EXCEPT ![i] = entry]

\* the entries deleted by enforceMaxCacheSize: the first toDelete of the entries
\* sorted by timestamp, Array.prototype.sort being stable over the Map order
EvictedNewest(cache, toDelete) ==
    {i \in 1..Len(cache) :
        Cardinality({j \in 1..Len(cache) :
            \/ cache[j].timestamp > cache[i].timestamp
            \/ cache[j].timestamp = cache[i].timestamp /\ j > i}) < toDelete}
Evicted(cache, toDelete) ==
    {i \in 1..Len(cache) :
        Cardinality({j \in 1..Len(cache) :
            \/ cache[j].timestamp < cache[i].timestamp
            \/ cache[j].timestamp = cache[i].timestamp /\ j < i}) < toDelete}

\* geocoding.ts:51-64
enforceMaxCacheSize(cache) ==
    IF Len(cache) > MAX_CACHE_SIZE
    THEN LET gone == Evicted(cache, Len(cache) - MAX_CACHE_SIZE)
             RECURSIVE Pick(_)
             Pick(i) == IF i > Len(cache) THEN <<>>
                        ELSE IF i \in gone THEN Pick(i + 1)
                        ELSE <<cache[i]>> \o Pick(i + 1)
         IN  Pick(1)
    ELSE cache

\* geocoding.ts:69-84: the value returned and the cache left behind
ExpiredAtTtl(entry, t) == t - entry.timestamp >= entry.ttl
Expired(entry, t) == t - entry.timestamp > entry.ttl

getCachedResult(cache, address, t) ==
    LET key == getCacheKey(address)
        i   == IndexOf(cache, key)
    IN  IF i = 0 THEN [value |-> None, cache |-> cache]
        ELSE IF Expired(cache[i], t)
        THEN [value |-> None, cache |-> MapDelete(cache, key)]
        ELSE [value |-> Some(cache[i].data), cache |-> cache]

\* geocoding.ts:89-98
cacheResult(cache, address, location, t) ==
    enforceMaxCacheSize(
        MapSet(cache, getCacheKey(address),
               [key |-> getCacheKey(address), data |-> location,
                timestamp |-> t, ttl |-> CACHE_TTL]))

\* geocoding.ts:32-46
clearExpiredCache(cache, t) ==
    LET RECURSIVE Pick(_)
        Pick(i) == IF i > Len(cache) THEN <<>>
                   ELSE IF Expired(cache[i], t) THEN Pick(i + 1)
                   ELSE <<cache[i]>> \o Pick(i + 1)
    IN  Pick(1)

\* geocoding.ts:339-349
getGeocachStats(cache) ==
    [size |-> Len(cache), maxSize |-> MAX_CACHE_SIZE, ttl |-> CACHE_TTL]

CacheKeys(cache) == {cache[i].key : i \in 1..Len(cache)}

-----------------------------------------------------------------------------
(* Values: GeocodedLocation (src/unnamed/part_006:67-81) and the provider's reply *)

Location(address, formatted, lat, lng, placeId) ==
    [address |-> address, formattedAddress |-> formatted,
     lat |-> lat, lng |-> lng, placeId |-> placeId]

\* two candidates of the provider: one in range, one with latitude 91
GoodCandidate == [formatted_address |-> <<"F">>, lat |-> 488, lng |-> 23, place_id |-> <<"p">>]
FarCandidate  == [formatted_address |-> <<"G">>, lat |-> 910, lng |-> 0, place_id |-> <<"q">>]

\* the locations the cache is exercised with on its own
SampleLocations ==
    {Location(A_Ab, <<"F">>, 488, 23, <<"p">>), Location(A_c, <<"G">>, -338, 1512, <<"q">>)}

\* an operation's record: what was called, on what, what it returned or threw, whether
\* it changed the cache, whether it called the provider, and the route's HTTP status
Op(op, addr, value, error, changed, fetched, status) ==
    [op |-> op, addr |-> addr, value |-> value, error |-> error,
     changed |-> changed, fetched |-> fetched, status |-> status]

\* the state of the one batch invocation: where it is (pc), who called it (via), the
\* list the caller sent (request), its arguments, its locals (uniqueAddresses, i, results, errors), the addresses of the
\* current chunk still suspended in fetch (tasks), the addresses it called
\* geocodeAddress for (started) and those it called the provider for (fetched), whether the cache was empty when it started (fresh), the Map it
\* returned (ret), and the route's reply (status, geocoded, failed)
Batch(pc, via, request, input, unique, parallel, i, tasks, results, errors, started, fetched, fresh, ret, status, geocoded, failed) ==
    [pc |-> pc, via |-> via, request |-> request, input |-> input, unique |-> unique, parallel |-> parallel,
     i |-> i, tasks |-> tasks, results |-> results, errors |-> errors,
     started |-> started, fetched |-> fetched, fresh |-> fresh, ret |-> ret, status |-> status,
     geocoded |-> geocoded, failed |-> failed]

EmptyMap == <<>>
IdleBatch == Batch("idle", "", <<>>, <<>>, <<>>, 0, 0, {}, EmptyMap, EmptyMap, <<>>,
                   <<>>, FALSE, None, "", 0, 0)

IdleOp == Op("init", <<>>, None, None, FALSE, FALSE, "")
Tainted == << <<"tainted">> >>


\* the state of the one enrichEventsWithLocations invocation: where it is (pc), the
\* location of each event it was given (events, None for an event without one),
\* eventsWithLocation (located), the positions in it whose geocodeAddress is suspended
\* in fetch (tasks), the addresses the provider was called for (fetched), what each
\* event was enriched with (enriched), and whether the cache was empty at the start
Enrich(pc, events, located, tasks, fetched, enriched, fresh) ==
    [pc |-> pc, events |-> events, located |-> located, tasks |-> tasks,
     fetched |-> fetched, enriched |-> enriched, fresh |-> fresh]
IdleEnrich == Enrich("idle", <<>>, <<>>, {}, <<>>, <<>>, FALSE)

\* error-handler.ts:243-245: the fields of a CircuitBreaker; with them, whether an
\* execute is awaiting fn (pc), whether that execute is the one that moved the breaker
\* from OPEN to HALF_OPEN (trial), how the last call ended (result), and the number of
\* failed executes since the last successful one or the last reset (consecutive)
Breaker(state, failureCount, lastFailureTime, pc, trial, result, consecutive) ==
    [state |-> state, failureCount |-> failureCount, lastFailureTime |-> lastFailureTime,
     pc |-> pc, trial |-> trial, result |-> result, consecutive |-> consecutive]
NewBreaker == Breaker("CLOSED", 0, None, "idle", FALSE, "", 0)

\* the state of the one retryWithBackoff invocation: where it is (pc), its arguments,
\* its locals attempt and lastError, the number of times it has invoked fn (invoked),
\* the delays it has slept (delays), and what it returned (value) or threw (error)
Retry(pc, maxRetries, initialDelayMs, attempt, lastError, invoked, delays, value, error) ==
    [pc |-> pc, maxRetries |-> maxRetries, initialDelayMs |-> initialDelayMs,
     attempt |-> attempt, lastError |-> lastError, invoked |-> invoked, delays |-> delays,
     value |-> value, error |-> error]
IdleRetry == Retry("idle", 0, 0, 0, None, 0, <<>>, None, None)

InitCommon ==
    /\ geocodeCache = <<>>
    /\ now = 0
    /\ lastOp = IdleOp
    /\ putLog = <<>>
    /\ calls = <<>>
    /\ batch = IdleBatch
    /\ enrich = IdleEnrich
    /\ breaker = NewBreaker
    /\ retry = IdleRetry

-----------------------------------------------------------------------------
(* The cache on its own: put, get, clear, sweep and the clock *)

PutAddrs == {A_Ab, A_padded, A_c, A_bare, A_paren}
GetAddrs == {A_Ab, A_ab, A_padded, A_c, A_bare, A_blank}

\* the addresses put into the cache since it was last empty, while their keys are
\* distinct and nothing but puts changed the cache
LogPut(log, a) ==
    IF \/ log = Tainted
       \/ Len(log) >= MaxPuts
       \/ \E i \in 1..Len(log) : getCacheKey(log[i]) = getCacheKey(a)
    THEN Tainted
    ELSE Append(log, a)

Tick ==
    /\ now < MaxTime
    /\ now' = now + 1
    /\ UNCHANGED <<geocodeCache, apiKey, lastOp, putLog, calls, batch, enrich, breaker, retry>>

CachePut(a, loc) ==
    /\ geocodeCache' = cacheResult(geocodeCache, a, loc, now)
    /\ putLog' = LogPut(putLog, a)
    /\ lastOp' = Op("put", a, Some(loc), None, TRUE, FALSE, "")
    /\ UNCHANGED <<now, apiKey, calls, batch, enrich, breaker, retry>>

CacheGet(a) ==
    LET r == getCachedResult(geocodeCache, a, now)
    IN  /\ geocodeCache' = r.cache
        /\ putLog' = IF r.cache = geocodeCache THEN putLog ELSE Tainted
        /\ lastOp' = Op("get", a, r.value, None, r.cache # geocodeCache, FALSE, "")
        /\ UNCHANGED <<now, apiKey, calls, batch, enrich, breaker, retry>>

\* geocoding.ts:330-334
clearGeocodeCache ==
    /\ geocodeCache' = <<>>
    /\ putLog' = <<>>
    /\ lastOp' = Op("clear", <<>>, None, None, geocodeCache # <<>>, FALSE, "")
    /\ UNCHANGED <<now, apiKey, calls, batch, enrich, breaker, retry>>

\* geocoding.ts:354-358: the maintenance timer fires
CacheSweep ==
    /\ geocodeCache' = clearExpiredCache(geocodeCache, now)
    /\ putLog' = IF geocodeCache' = geocodeCache THEN putLog ELSE Tainted
    /\ lastOp' = Op("sweep", <<>>, None, None, geocodeCache' # geocodeCache, FALSE, "")
    /\ UNCHANGED <<now, apiKey, calls, batch, enrich, breaker, retry>>

InitCache == InitCommon /\ apiKey = TRUE

NextCache ==
    \/ Tick
    \/ \E a \in PutAddrs, loc \in SampleLocations : CachePut(a, loc)
    \/ \E a \in GetAddrs : CacheGet(a)
    \/ clearGeocodeCache
    \/ CacheSweep

SpecCache == InitCache /\ [][NextCache]_vars

-----------------------------------------------------------------------------
(* Claims about the cache *)

\* what the claims call the normalized form of an address: lowercased, then trimmed
Normalized(a) == trim(toLowerCase(a))

\* C3: after every put the cache holds at most MAX_CACHE_SIZE entries, and after
\* MAX_CACHE_SIZE + k puts of distinct addresses into an empty cache it holds
\* exactly the MAX_CACHE_SIZE addresses put last, in the order they were put: the
\* k put first are the ones evicted, also when timestamps are equal.
C3_EvictsOldest ==
    /\ Len(geocodeCache) <= MAX_CACHE_SIZE
    /\ putLog # Tainted =>
          LET n == Len(putLog)
              k == IF n > MAX_CACHE_SIZE THEN n - MAX_CACHE_SIZE ELSE 0
          IN  [i \in 1..Len(geocodeCache) |-> geocodeCache[i].key]
                  = [i \in 1..(n - k) |-> Normalized(putLog[k + i])]

\* MAX_CACHE_SIZE + 2 distinct addresses were put, the survivors at the same instant
C3_Witness ==
    /\ putLog # Tainted
    /\ Len(putLog) = MAX_CACHE_SIZE + 2
    /\ lastOp.op = "put"
    /\ Len(geocodeCache) = MAX_CACHE_SIZE
    /\ \A i \in 1..Len(geocodeCache) : geocodeCache[i].timestamp = now

\* C4: a get of an entry older than its ttl deletes that entry (and no other) and
\* reports absent; a get of an entry not older than its ttl returns the stored
\* location and leaves the cache as it is; a get of an absent key reports absent.
C4_GetStep(a) ==
    LET i == IndexOf(geocodeCache, Normalized(a))
    IN  IF i = 0
        THEN lastOp'.value = None /\ geocodeCache' = geocodeCache
        ELSE IF now - geocodeCache[i].timestamp > geocodeCache[i].ttl
        THEN /\ lastOp'.value = None
             /\ Normalized(a) \notin CacheKeys(geocodeCache')
             /\ Len(geocodeCache') = Len(geocodeCache) - 1
             /\ \A j \in 1..Len(geocodeCache) :
                    j # i => \E m \in 1..Len(geocodeCache') : geocodeCache'[m] = geocodeCache[j]
        ELSE /\ lastOp'.value = Some(geocodeCache[i].data)
             /\ geocodeCache' = geocodeCache

C4_NeverStale ==
    [][\A a \in GetAddrs :
          (lastOp'.op = "get" /\ lastOp'.addr = a /\ now' = now) => C4_GetStep(a)]_vars

\* a get found its entry expired, deleted it and reported absent, another entry staying
C4_Witness ==
    /\ lastOp.op = "get"
    /\ lastOp.changed
    /\ lastOp.value = None
    /\ Len(geocodeCache) >= 1

\* C5: a get that directly follows a put returns the location put, for every
\* address with the same normalized form as the one put; and the keys of the
\* cache are normalized and pairwise distinct, so two variants never hold two entries.
C5_KeysNormalized ==
    \A i, j \in 1..Len(geocodeCache) :
        /\ geocodeCache[i].key = Normalized(geocodeCache[i].key)
        /\ i # j => geocodeCache[i].key # geocodeCache[j].key

C5_PutThenGet ==
    (/\ lastOp.op = "put"
     /\ lastOp'.op = "get"
     /\ now' = now
     /\ Normalized(lastOp'.addr) = Normalized(lastOp.addr)
     /\ LET i == IndexOf(geocodeCache, Normalized(lastOp.addr))
        IN  i # 0 /\ geocodeCache[i].timestamp = now)
        => lastOp'.value = lastOp.value

C5_RoundTrip == []C5_KeysNormalized /\ [][C5_PutThenGet]_vars

\* " aB " was put and "ab" was then read back at the same instant
C5_Witness ==
    /\ putLog = <<A_padded>>
    /\ lastOp.op = "get"
    /\ lastOp.addr = A_ab
    /\ lastOp.value # None
    /\ Len(geocodeCache) = 1
    /\ geocodeCache[1].timestamp = now
    /\ lastOp.value = Some(geocodeCache[1].data)

-----------------------------------------------------------------------------
(* GeocodeResolver: geocodeAddress, geocoding.ts:145-229 *)

Error(msg, arg) == [msg |-> msg, arg |-> arg]

\* what fetch and response.json() hand back: a rejected fetch, an HTTP failure, or a
\* payload with an error_message or a list of candidates
Response(kind, status, message, results) ==
    [kind |-> kind, status |-> status, error_message |-> message, results |-> results]

Responses ==
    {Response("reject", "", <<>>, <<>>),
     Response("http", "500", <<>>, <<>>),
     Response("json", "200", <<"D">>, <<>>),
     Response("json", "200", <<>>, <<>>),
     Response("json", "200", <<>>, <<GoodCandidate, FarCandidate>>),
     Response("json", "200", <<>>, <<FarCandidate>>)}

Outcome(cache, st, value, error) ==
    [cache |-> cache, st |-> st, value |-> value, error |-> error]

\* geocoding.ts:145-160: up to the await of fetch; "fetching" is the suspension there
geocodeAddressEnterKeyFirst(cache, address, key, t) ==
    LET cached == getCachedResult(cache, address, t)
    IN  IF ~key
        THEN Outcome(cached.cache, "err", None,
                     Some(Error("GOOGLE_MAPS_API_KEY is not configured", <<>>)))
        ELSE IF cached.value # None
        THEN Outcome(cached.cache, "ok", cached.value, None)
        ELSE IF trim(address) = <<>>
        THEN Outcome(cached.cache, "err", None, Some(Error("Address is required", <<>>)))
        ELSE Outcome(cached.cache, "fetching", None, None)
geocodeAddressEnterNoBlankCheck(cache, address, key, t) ==
    LET cached == getCachedResult(cache, address, t)
    IN  IF cached.value # None
        THEN Outcome(cached.cache, "ok", cached.value, None)
        ELSE IF ~key
        THEN Outcome(cached.cache, "err", None,
                     Some(Error("GOOGLE_MAPS_API_KEY is not configured", <<>>)))
        ELSE Outcome(cached.cache, "fetching", None, None)
geocodeAddressEnter(cache, address, key, t) ==
    LET cached == getCachedResult(cache, address, t)
    IN  IF cached.value # None
        THEN Outcome(cached.cache, "ok", cached.value, None)
        ELSE IF trim(address) = <<>>
        THEN Outcome(cached.cache, "err", None, Some(Error("Address is required", <<>>)))
        ELSE IF ~key
        THEN Outcome(cached.cache, "err", None,
                     Some(Error("GOOGLE_MAPS_API_KEY is not configured", <<>>)))
        ELSE Outcome(cached.cache, "fetching", None, None)

\* geocoding.ts:172-228: from the provider's reply to the return or the rethrow
geocodeAddressResumeNegativeCache(cache, address, r, t) ==
    IF r.kind = "reject"
    THEN Outcome(cache, "err", None, Some(Error("fetch failed", <<>>)))
    ELSE IF r.kind = "http"
    THEN Outcome(cache, "err", None, Some(Error("Geocoding API error: ", <<r.status>>)))
    ELSE IF r.error_message # <<>>
    THEN Outcome(cache, "err", None, Some(Error("Geocoding API error: ", r.error_message)))
    ELSE IF Len(r.results) = 0
    THEN Outcome(cacheResult(cache, address, Location(address, <<>>, 0, 0, <<>>), t),
                 "err", None, Some(Error("No geocoding results found for ", address)))
    ELSE LET result   == r.results[1]
             location == Location(address, result.formatted_address,
                                  result.lat, result.lng, result.place_id)
         IN  Outcome(cacheResult(cache, address, location, t), "ok", Some(location), None)
geocodeAddressResume(cache, address, r, t) ==
    IF r.kind = "reject"
    THEN Outcome(cache, "err", None, Some(Error("fetch failed", <<>>)))
    ELSE IF r.kind = "http"
    THEN Outcome(cache, "err", None, Some(Error("Geocoding API error: ", <<r.status>>)))
    ELSE IF r.error_message # <<>>
    THEN Outcome(cache, "err", None, Some(Error("Geocoding API error: ", r.error_message)))
    ELSE IF Len(r.results) = 0
    THEN Outcome(cache, "err", None, Some(Error("No geocoding results found for ", address)))
    ELSE LET result   == r.results[1]
             location == Location(address, result.formatted_address,
                                  result.lat, result.lng, result.place_id)
         IN  Outcome(cacheResult(cache, address, location, t), "ok", Some(location), None)

-----------------------------------------------------------------------------
(* BatchResolver: batchGeocodeAddresses, geocoding.ts:234-270 *)

\* Map.prototype.set on results and errors, keyed by the address string
MapPut(m, k, v) == [x \in DOMAIN m \cup {k} |-> IF x = k THEN v ELSE m[x]]

RECURSIVE Dedup(_, _)
\* Array.from(new Set(addresses)): the first occurrence of each string, in order
Dedup(xs, seen) ==
    IF xs = <<>> THEN <<>>
    ELSE IF Head(xs) \in seen THEN Dedup(Tail(xs), seen)
    ELSE <<Head(xs)>> \o Dedup(Tail(xs), seen \cup {Head(xs)})
NoDedup(addresses) == addresses
uniqueAddresses(addresses) == Dedup(addresses, {})

\* geocoding.ts:249-254: the then and the catch callback of one address's promise
onFulfilled(b, addr, location) ==
    [b EXCEPT !.tasks = @ \ {addr}, !.results = MapPut(@, addr, location)]
onRejectedFailFast(b, addr, error) ==
    [b EXCEPT !.tasks = {}, !.errors = MapPut(@, addr, error), !.i = Len(b.unique)]
onRejected(b, addr, error) ==
    [b EXCEPT !.tasks = @ \ {addr}, !.errors = MapPut(@, addr, error)]

RECURSIVE StartChunk(_, _, _, _, _)
\* geocoding.ts:245-255: chunk.map calls geocodeAddress for each address of the chunk in
\* turn, each running to its return, its throw or its suspension in fetch; the then and
\* catch callbacks of the settled ones fill results and errors
StartChunk(chunk, cache, b, key, t) ==
    IF chunk = <<>> THEN [cache |-> cache, batch |-> b]
    ELSE LET a == Head(chunk)
             o == geocodeAddressEnter(cache, a, key, t)
             b1 == [b EXCEPT !.started = Append(@, a)]
             b2 == IF o.st = "fetching"
                   THEN [b1 EXCEPT !.tasks = @ \cup {a}, !.fetched = Append(@, a)]
                   ELSE IF o.st = "ok"
                   THEN onFulfilled(b1, a, o.value[1])
                   ELSE onRejected(b1, a, o.error[1])
         IN  StartChunk(Tail(chunk), o.cache, b2, key, t)

Min(x, y) == IF x < y THEN x ELSE y

\* uniqueAddresses.slice(i, i + parallel)
ChunkAll(unique, i, parallel) == SubSeq(unique, i + 1, Len(unique))
Chunk(unique, i, parallel) == SubSeq(unique, i + 1, Min(i + parallel, Len(unique)))

\* geocoding.ts:234-257: the call, up to its first await
batchGeocodeAddressesEnter(cache, request, addresses, parallel, via, key, t) ==
    LET unique == uniqueAddresses(addresses)
        b0 == Batch("running", via, request, addresses, unique, parallel, 0, {},
                    EmptyMap, EmptyMap, <<>>, <<>>, cache = <<>>, None, "", 0, 0)
    IN  StartChunk(Chunk(unique, 0, parallel), cache, b0, key, t)

\* geocoding.ts:265-269, and for the route part_009:425-438: the Map returned and the
\* counts of the reply
ReturnedMap(b) == b.results
batchReturn(b) ==
    [b EXCEPT !.pc = "done",
              !.ret = Some(ReturnedMap(b)),
              !.status = IF b.via = "post" THEN "200" ELSE "",
              !.geocoded = IF b.via = "post" THEN Cardinality(DOMAIN b.results) ELSE 0,
              !.failed = IF b.via = "post"
                         THEN Len(b.input) - Cardinality(DOMAIN b.results) ELSE 0]

\* the route's 400 reply to a request it does not start
batchRejected(request) ==
    Batch("rejected", "post", request, <<>>, <<>>, 0, 0, {}, EmptyMap, EmptyMap, <<>>,
          <<>>, FALSE, None, "400", 0, 0)

\* part_009:406-408: addresses.filter of the strings that are not blank
RECURSIVE validAddresses(_)
validAddresses(addresses) ==
    IF addresses = <<>> THEN <<>>
    ELSE IF Len(trim(Head(addresses))) > 0
    THEN <<Head(addresses)>> \o validAddresses(Tail(addresses))
    ELSE validAddresses(Tail(addresses))

-----------------------------------------------------------------------------
(* Single resolutions: geocodeAddress called directly (as enrichEventsWithLocations *)
(* does) and through POST /api/geocode, src/unnamed/part_009:294-373              *)

Slots == 1..NSlots

\* a suspended geocodeAddress: who called it ("direct" or "post") and for what address
InFlight(via, addr) == [via |-> via, addr |-> addr]
Free == InFlight("", <<>>)

\* the lowest free slot takes the next suspended call
FirstFree(c, s) == c[s] = Free /\ \A x \in 1..(s - 1) : c[x] # Free

DirectAddrs == {A_Ab, A_padded, A_blank, A_empty, A_bare}
PostAddrs == {A_Ab, A_empty, A_bare, A_far}

\* the HTTP status of the route's reply to a resolution that ended in `st`
PostStatus(st) == IF st = "ok" THEN "200" ELSE "404"

\* a caller invokes geocodeAddress(a): it returns or throws at once, or suspends in fetch
ResolveOne(s, a) ==
    /\ FirstFree(calls, s)
    /\ LET o == geocodeAddressEnter(geocodeCache, a, apiKey, now)
       IN  /\ geocodeCache' = o.cache
           /\ IF o.st = "fetching"
              THEN calls' = [calls EXCEPT ![s] = InFlight("direct", a)] /\ UNCHANGED lastOp
              ELSE /\ lastOp' = Op("direct", a, o.value, o.error,
                                   o.cache # geocodeCache, FALSE, "")
                   /\ UNCHANGED calls
    /\ UNCHANGED <<now, apiKey, putLog, batch, enrich, breaker, retry>>

\* part_009:304-359: POST /api/geocode with {address: a}, up to its reply or suspension
PostGeocode(s, a) ==
    /\ FirstFree(calls, s)
    /\ LET parsed == parseCoordinatesFromLocation(a)
       IN  IF a = <<>>
           THEN /\ lastOp' = Op("post", a, None,
                        Some(Error("address parameter is required and must be a string", <<>>)),
                        FALSE, FALSE, "400")
                /\ UNCHANGED <<geocodeCache, calls>>
           ELSE IF parsed.found /\ isValidCoordinates(parsed.lat, parsed.lng)
           THEN /\ lastOp' = Op("post", a, Some(Location(a, a, parsed.lat, parsed.lng, <<>>)),
                                None, FALSE, FALSE, "200")
                /\ UNCHANGED <<geocodeCache, calls>>
           ELSE LET o == geocodeAddressEnter(geocodeCache, a, apiKey, now)
                IN  /\ geocodeCache' = o.cache
                    /\ IF o.st = "fetching"
                       THEN calls' = [calls EXCEPT ![s] = InFlight("post", a)]
                            /\ UNCHANGED lastOp
                       ELSE /\ lastOp' = Op("post", a, o.value, o.error,
                                            o.cache # geocodeCache, FALSE, PostStatus(o.st))
                            /\ UNCHANGED calls
    /\ UNCHANGED <<now, apiKey, putLog, batch, enrich, breaker, retry>>

\* the provider's reply reaches a suspended geocodeAddress, which returns or throws
ProviderReply(s, r) ==
    /\ calls[s] # Free
    /\ LET o == geocodeAddressResume(geocodeCache, calls[s].addr, r, now)
       IN  /\ geocodeCache' = o.cache
           /\ lastOp' = Op(calls[s].via, calls[s].addr, o.value, o.error,
                           o.cache # geocodeCache, TRUE,
                           IF calls[s].via = "post" THEN PostStatus(o.st) ELSE "")
    /\ calls' = [calls EXCEPT ![s] = Free]
    /\ UNCHANGED <<now, apiKey, putLog, batch, enrich, breaker, retry>>

\* the deployment sets or removes GOOGLE_MAPS_API_KEY
SetApiKey(b) ==
    /\ apiKey # b
    /\ apiKey' = b
    /\ UNCHANGED <<geocodeCache, now, lastOp, putLog, calls, batch, enrich, breaker, retry>>

InitResolve ==
    /\ geocodeCache = <<>>
    /\ now = 0
    /\ apiKey \in BOOLEAN
    /\ lastOp = IdleOp
    /\ putLog = <<>>
    /\ calls = [s \in Slots |-> Free]
    /\ batch = IdleBatch
    /\ enrich = IdleEnrich
    /\ breaker = NewBreaker
    /\ retry = IdleRetry

NextResolve ==
    \/ Tick
    \/ \E b \in BOOLEAN : SetApiKey(b)
    \/ \E a \in DirectAddrs : ResolveOne(1, a)
    \/ \E a \in PostAddrs : PostGeocode(1, a)
    \/ \E r \in Responses : ProviderReply(1, r)

\* one caller at a time: a call is issued when the one before it has settled
SpecResolve == InitResolve /\ [][NextResolve]_vars

-----------------------------------------------------------------------------
(* Batches: batchGeocodeAddresses called directly and through POST /api/geocode *)
(* with {addresses, batch: true}, src/unnamed/part_009:299-302 and 378-456       *)

BatchAddrs == {A_Ab, A_padded, A_blank, A_bare}

RECURSIVE SeqsUpTo(_, _)
SeqsUpTo(S, n) ==
    IF n = 0 THEN {<<>>}
    ELSE LET shorter == SeqsUpTo(S, n - 1)
         IN  shorter \cup {Append(q, x) : q \in {r \in shorter : Len(r) = n - 1}, x \in S}

BatchInputs == SeqsUpTo(BatchAddrs, MaxBatchLen)
Parallels == {1, 2}

\* a caller invokes batchGeocodeAddresses(addresses, parallel); with nothing to resolve
\* the loop is skipped and the empty Map is returned
BatchGeocode(addresses, parallel) ==
    /\ batch.pc = "idle"
    /\ LET r == batchGeocodeAddressesEnter(geocodeCache, addresses, addresses, parallel,
                                           "direct", apiKey, now)
       IN  /\ geocodeCache' = r.cache
           /\ batch' = IF r.batch.unique = <<>> THEN batchReturn(r.batch) ELSE r.batch
    /\ UNCHANGED <<now, apiKey, lastOp, putLog, calls, enrich, breaker, retry>>

\* part_009:378-423: POST /api/geocode with {addresses, batch: true}
handleBatchGeocoding(addresses) ==
    /\ batch.pc = "idle"
    /\ IF Len(addresses) = 0 \/ Len(addresses) > MAX_BATCH_SIZE
          \/ validAddresses(addresses) = <<>>
       THEN batch' = batchRejected(addresses) /\ UNCHANGED geocodeCache
       ELSE LET r == batchGeocodeAddressesEnter(geocodeCache, addresses,
                         validAddresses(addresses), ROUTE_PARALLEL, "post", apiKey, now)
            IN  geocodeCache' = r.cache /\ batch' = r.batch
    /\ UNCHANGED <<now, apiKey, lastOp, putLog, calls, enrich, breaker, retry>>

\* the provider's reply reaches one suspended resolution of the chunk; its then or
\* catch callback fills results or errors
BatchSettle(a, r) ==
    /\ batch.pc = "running"
    /\ a \in batch.tasks
    /\ LET o == geocodeAddressResume(geocodeCache, a, r, now)
       IN  /\ geocodeCache' = o.cache
           /\ batch' = IF o.st = "ok"
                       THEN onFulfilled(batch, a, o.value[1])
                       ELSE onRejected(batch, a, o.error[1])
    /\ UNCHANGED <<now, apiKey, lastOp, putLog, calls, enrich, breaker, retry>>

\* geocoding.ts:257-269: Promise.all has resolved; pause before the next chunk, or return
BatchChunkDone ==
    /\ batch.pc = "running"
    /\ batch.tasks = {}
    /\ batch' = IF batch.i + batch.parallel < Len(batch.unique)
                THEN [batch EXCEPT !.pc = "sleeping"]
                ELSE batchReturn(batch)
    /\ UNCHANGED <<geocodeCache, now, apiKey, lastOp, putLog, calls, enrich, breaker, retry>>

\* geocoding.ts:244-255: the pause is over; the next chunk starts
BatchWake ==
    /\ batch.pc = "sleeping"
    /\ LET i2 == batch.i + batch.parallel
           r  == StartChunk(Chunk(batch.unique, i2, batch.parallel), geocodeCache,
                            [batch EXCEPT !.pc = "running", !.i = i2], apiKey, now)
       IN  geocodeCache' = r.cache /\ batch' = r.batch
    /\ UNCHANGED <<now, apiKey, lastOp, putLog, calls, enrich, breaker, retry>>

\* the caller has taken the Map (or the reply); the next batch may be issued
BatchRelease ==
    /\ batch.pc \in {"done", "rejected"}
    /\ batch' = IdleBatch
    /\ UNCHANGED <<geocodeCache, now, apiKey, lastOp, putLog, calls, enrich, breaker, retry>>

InitBatch == InitResolve

NextBatch ==
    \/ \E b \in BOOLEAN : SetApiKey(b)
    \/ \E addresses \in BatchInputs, parallel \in Parallels : BatchGeocode(addresses, parallel)
    \/ \E addresses \in BatchInputs : handleBatchGeocoding(addresses)
    \/ \E a \in BatchAddrs, r \in Responses : BatchSettle(a, r)
    \/ BatchChunkDone
    \/ BatchWake
    \/ BatchRelease

SpecBatch == InitBatch /\ [][NextBatch]_vars

-----------------------------------------------------------------------------
(* Claims about single resolutions *)

InRange(lat, lng) == -900 <= lat /\ lat <= 900 /\ -1800 <= lng /\ lng <= 1800

Resolved(o) == o.op \in {"direct", "post"} /\ o.value # None

\* C1: every cache entry has in-range coordinates, and every location that
\* geocodeAddress or the route returns as a success has in-range coordinates.
C1_OnlyValidCoordinates ==
    /\ \A i \in 1..Len(geocodeCache) :
           InRange(geocodeCache[i].data.lat, geocodeCache[i].data.lng)
    /\ Resolved(lastOp) => InRange(lastOp.value[1].lat, lastOp.value[1].lng)

\* a step in which geocodeAddress(a) is called directly
DirectCallStep(a) ==
    /\ calls[1] = Free
    /\ \/ calls'[1] = InFlight("direct", a)
       \/ /\ calls'[1] = Free
          /\ lastOp' # lastOp
          /\ lastOp'.op = "direct" /\ lastOp'.addr = a /\ ~lastOp'.fetched

\* a step in which a suspended geocodeAddress returns the provider's first candidate
ProviderSuccessStep ==
    /\ calls[1] # Free /\ calls'[1] = Free
    /\ lastOp'.value # None

\* C6: the location a call of geocodeAddress(a) gets from the provider is the one it
\* leaves in the cache; and while that entry is in the cache and not older than its
\* ttl, a further geocodeAddress(a) returns that same location at once, with no
\* provider call and the cache untouched, whether or not the credential is set.
C6_Step ==
    /\ ProviderSuccessStep =>
          LET i == IndexOf(geocodeCache', Normalized(calls[1].addr))
          IN  i # 0 /\ Some(geocodeCache'[i].data) = lastOp'.value
    /\ \A a \in DirectAddrs :
          LET i == IndexOf(geocodeCache, Normalized(a))
          IN  (/\ DirectCallStep(a)
               /\ i # 0
               /\ geocodeCache[i].data.address = a
               /\ now - geocodeCache[i].timestamp <= geocodeCache[i].ttl)
              => /\ calls'[1] = Free
                 /\ lastOp'.value = Some(geocodeCache[i].data)
                 /\ lastOp'.error = None
                 /\ geocodeCache' = geocodeCache

C6_Idempotent == [][C6_Step]_vars

\* a second geocodeAddress("Ab") was answered from the entry that the first one wrote,
\* at the last instant of its ttl and with the credential removed
C6_Witness ==
    /\ lastOp.op = "direct" /\ lastOp.addr = A_Ab
    /\ ~lastOp.fetched
    /\ ~apiKey
    /\ \E i \in 1..Len(geocodeCache) :
          /\ geocodeCache[i].key = Normalized(A_Ab)
          /\ geocodeCache[i].data.address = A_Ab
          /\ lastOp.value = Some(geocodeCache[i].data)
          /\ now - geocodeCache[i].timestamp = CACHE_TTL

\* the address carries a coordinate pair that is in range
HasValidPair(a) ==
    LET p == parseCoordinatesFromLocation(a)
    IN  p.found /\ InRange(p.lat, p.lng)

\* C7: an address that carries an in-range coordinate pair never reaches the
\* provider, and its resolution, by geocodeAddress or by the route, is a success with
\* that pair as coordinates and the address as formattedAddress.
C7_ShortcutAlways ==
    /\ \A s \in Slots : calls[s] # Free => ~HasValidPair(calls[s].addr)
    /\ (lastOp.op \in {"direct", "post"} /\ HasValidPair(lastOp.addr)) =>
          LET p == parseCoordinatesFromLocation(lastOp.addr)
          IN  /\ ~lastOp.fetched
              /\ lastOp.value # None
              /\ lastOp.value[1].lat = p.lat /\ lastOp.value[1].lng = p.lng
              /\ lastOp.value[1].formattedAddress = lastOp.addr

-----------------------------------------------------------------------------
(* Claims about batches *)

Range(q) == {q[i] : i \in 1..Len(q)}
Count(q, x) == Cardinality({i \in 1..Len(q) : q[i] = x})

\* the failure records the caller of batchGeocodeAddresses receives: the function
\* returns the results Map alone
DeliveredFailed(b) == {}

\* C2: when a batch has returned, every distinct input address is a key of the
\* outcome handed to the caller, as resolved or as failed, and of one of them only.
C2_NoAddressDropped ==
    (batch.pc = "done" /\ batch.via = "direct") =>
        /\ DOMAIN batch.ret[1] \cup DeliveredFailed(batch) = Range(batch.input)
        /\ DOMAIN batch.ret[1] \cap DeliveredFailed(batch) = {}

\* C8: in one batch, geocodeAddress is called at most once for an address string and
\* the provider at most once, however often the string occurs in the input; when the
\* batch has returned, geocodeAddress was called exactly once for each input string.
C8_OncePerAddress ==
    \A a \in Range(batch.input) :
        /\ Count(batch.started, a) <= 1
        /\ Count(batch.fetched, a) <= 1
        /\ batch.pc = "done" => Count(batch.started, a) = 1

\* a batch that started on an empty cache returned; an address occurred twice in its
\* input and cost one provider call
C8_Witness ==
    /\ batch.pc = "done" /\ batch.fresh
    /\ \E a \in Range(batch.input) :
          /\ Count(batch.input, a) >= 2
          /\ Count(batch.fetched, a) = 1
          /\ a \in DOMAIN batch.results

\* C9: when a batch has returned, geocodeAddress was called for every distinct input
\* address, each one is in results or in errors and in one only, and the Map
\* returned is results; and the settling of one address, as a success or as a
\* failure, leaves every other address of the chunk in flight and every outcome
\* already recorded as it was.
C9_AllSettled ==
    batch.pc = "done" =>
        /\ Range(batch.started) = Range(batch.input)
        /\ DOMAIN batch.results \cup DOMAIN batch.errors = Range(batch.input)
        /\ DOMAIN batch.results \cap DOMAIN batch.errors = {}
        /\ batch.ret = Some(batch.results)

C9_SettleStep ==
    \A a \in BatchAddrs :
        (a \in batch.tasks /\ a \notin batch'.tasks) =>
            /\ batch'.pc = "running"
            /\ batch'.tasks = batch.tasks \ {a}
            /\ batch'.i = batch.i
            /\ \A x \in DOMAIN batch.results :
                   x \in DOMAIN batch'.results /\ batch'.results[x] = batch.results[x]
            /\ \A x \in DOMAIN batch.errors :
                   x \in DOMAIN batch'.errors /\ batch'.errors[x] = batch.errors[x]

C9_FailureIsolation == []C9_AllSettled /\ [][C9_SettleStep]_vars

\* a batch returned in which an address failed and an address after it was resolved
C9_Witness ==
    /\ batch.pc = "done"
    /\ \E j, k \in 1..Len(batch.unique) :
          /\ j < k
          /\ batch.unique[j] \in DOMAIN batch.errors
          /\ batch.unique[k] \in DOMAIN batch.results
          /\ batch.unique[k] \in DOMAIN batch.ret[1]

\* C10: for a request with no address or with more than MAX_BATCH_SIZE addresses no
\* resolution is started and no provider call is issued.
C10_RejectedBeforeWork ==
    (Len(batch.request) = 0 \/ Len(batch.request) > MAX_BATCH_SIZE) =>
        /\ batch.started = <<>>
        /\ batch.fetched = <<>>

\* C11: while a batch runs, at most `parallel` of its resolutions are suspended in
\* fetch; it pauses only with every resolution of the current group settled and a
\* further group to come; a resolution starts within a running batch only as the pause
\* ends, with every address started before it settled, and at most `parallel` start
\* together; and a pause never ends in the return.
C11_InFlightBounded ==
    /\ batch.pc \in {"running", "sleeping"} => Cardinality(batch.tasks) <= batch.parallel
    /\ batch.pc = "sleeping" =>
          /\ batch.tasks = {}
          /\ batch.i + batch.parallel < Len(batch.unique)
          /\ Range(batch.started) = DOMAIN batch.results \cup DOMAIN batch.errors

C11_GroupStep ==
    /\ (batch.pc \in {"running", "sleeping"} /\ Len(batch'.started) > Len(batch.started)) =>
          /\ batch.pc = "sleeping"
          /\ batch.tasks = {}
          /\ Range(batch.started) = DOMAIN batch.results \cup DOMAIN batch.errors
          /\ Len(batch'.started) - Len(batch.started) <= batch.parallel
    /\ batch.pc = "sleeping" =>
          /\ batch'.pc \in {"sleeping", "running"}
          /\ batch'.pc = "running" => Len(batch'.started) > Len(batch.started)
    /\ (batch.pc = "running" /\ batch'.pc = "done") =>
          /\ batch.tasks = {}
          /\ batch.i + batch.parallel >= Len(batch.unique)

C11_BoundedConcurrency == []C11_InFlightBounded /\ [][C11_GroupStep]_vars

\* the resolutions of a later group are suspended in fetch, as many as the limit
\* allows, every address of the groups before it being settled
C11_Witness ==
    /\ batch.pc = "running"
    /\ batch.i >= batch.parallel
    /\ batch.tasks # {}
    /\ Cardinality(DOMAIN batch.results \cup DOMAIN batch.errors) = batch.i
    /\ batch.i + Cardinality(batch.tasks) = Len(batch.unique)

-----------------------------------------------------------------------------
(* Claims about the failures of a resolution *)

\* the addresses that are empty or hold white space only
BlankAddrs == {a \in DirectAddrs : \A i \in 1..Len(a) : a[i] \in WhiteSpace}

\* C12: geocodeAddress of an empty or white-space-only address throws 'Address is
\* required' at once, whatever the cache holds and whether or not the credential is
\* set, with no provider call and the cache left as it was; and no cache entry is
\* ever keyed by the empty string.
C12_NoBlankEntry ==
    /\ \A i \in 1..Len(geocodeCache) : geocodeCache[i].key # <<>>
    /\ \A s \in Slots : calls[s] # Free => calls[s].addr \notin BlankAddrs

C12_BlankStep ==
    \A a \in BlankAddrs :
        DirectCallStep(a) =>
            /\ calls'[1] = Free
            /\ lastOp'.error = Some(Error("Address is required", <<>>))
            /\ lastOp'.value = None
            /\ ~lastOp'.fetched
            /\ geocodeCache' = geocodeCache

C12_BlankRejected == []C12_NoBlankEntry /\ [][C12_BlankStep]_vars

\* geocodeAddress(" ") was rejected with the cache holding an entry and the credential set
C12_Witness ==
    /\ lastOp.op = "direct" /\ lastOp.addr = A_blank
    /\ lastOp.error = Some(Error("Address is required", <<>>))
    /\ geocodeCache # <<>>
    /\ apiKey

\* the error kind a caller can read off the message thrown by geocodeAddress
KindOfMessage(msg) ==
    IF msg = "Address is required" THEN "InvalidInput"
    ELSE IF msg = "GOOGLE_MAPS_API_KEY is not configured" THEN "ProviderNotConfigured"
    ELSE IF msg = "No geocoding results found for " THEN "NotFound"
    ELSE IF msg \in {"Geocoding API error: ", "fetch failed"} THEN "ProviderError"
    ELSE "Unknown"

\* the error kind a client can read off the status of the route's reply
KindOfStatus(status) ==
    IF status = "400" THEN "InvalidInput"
    ELSE IF status = "404" THEN "NotFound"
    ELSE "Other"

\* C13: a failed geocodeAddress throws a message of one of the four kinds, the one for
\* no candidates naming the address; and the route replies 404, not found, to a
\* failure only when the provider had no candidate for the address: a blank address,
\* a missing credential and a provider fault are not answered as not found.
C13_DistinguishableKinds ==
    (lastOp.op \in {"direct", "post"} /\ lastOp.error # None /\ lastOp.status # "400") =>
        LET err == lastOp.error[1]
        IN  /\ KindOfMessage(err.msg) # "Unknown"
            /\ KindOfMessage(err.msg) = "NotFound" => err.arg = lastOp.addr
            /\ lastOp.op = "post" =>
                   (KindOfStatus(lastOp.status) = "NotFound"
                        <=> KindOfMessage(err.msg) = "NotFound")

\* C16: the location a resolution returns carries in `address` the very string that
\* was submitted, also when it comes from the cache; and so does every location of a
\* batch's results, under the address it is keyed by.
C16_ExactInputAddress ==
    /\ Resolved(lastOp) => lastOp.value[1].address = lastOp.addr
    /\ \A a \in DOMAIN batch.results : batch.results[a].address = a

-----------------------------------------------------------------------------
(* Further claims about the cache and about batches *)

\* C14: clearGeocodeCache leaves the cache empty, so that getGeocachStats reports
\* size 0 and a get that follows reports absent, and it returns the number of
\* entries it removed.
C14_ClearStep ==
    /\ (lastOp'.op = "clear" /\ lastOp' # lastOp) =>
          /\ geocodeCache' = <<>>
          /\ getGeocachStats(geocodeCache').size = 0
          /\ lastOp'.value = Some(Len(geocodeCache))
    /\ (lastOp.op = "clear" /\ lastOp'.op = "get") => lastOp'.value = None

C14_ClearReturnsCount == [][C14_ClearStep]_vars

\* C15: the route rejects a batch request only when it has no address or more than
\* MAX_BATCH_SIZE addresses; a request within the limit is started, and when it
\* completes every address of the request, a blank one included, is among the
\* resolved or among the failed.
C15_OnlySizeRejects ==
    (batch.via = "post" /\ Len(batch.request) >= 1 /\ Len(batch.request) <= MAX_BATCH_SIZE) =>
        /\ batch.pc # "rejected"
        /\ batch.pc = "done" =>
              Range(batch.request) = DOMAIN batch.results \cup DOMAIN batch.errors

-----------------------------------------------------------------------------
(* The pure functions: calculateBounds (geocoding.ts:299-325), getZoomLevel       *)
(* (src/src/components/CalendarMap.tsx:54-66) and parseCoordinatesFromLocation,   *)
(* each applied to an argument drawn from a bounded set. lastOp.addr holds the     *)
(* argument and lastOp.value what the function returned. The functions keep no     *)
(* state, so a behaviour is one application.                                       *)

Max(x, y) == IF x > y THEN x ELSE y
Abs(x) == IF x < 0 THEN 0 - x ELSE x

Point(lat, lng) == [lat |-> lat, lng |-> lng]
Box(neLat, neLng, swLat, swLng) == [ne |-> Point(neLat, neLng), sw |-> Point(swLat, swLng)]

RECURSIVE BoundsLoop(_, _)
\* geocoding.ts:314-319: the loop over the points, acc holding maxLat, maxLng, minLat, minLng
BoundsLoop(points, acc) ==
    IF points = <<>> THEN acc
    ELSE LET point == Head(points)
         IN  BoundsLoop(Tail(points),
                        Box(Max(acc.ne.lat, point.lat), Max(acc.ne.lng, point.lng),
                            Min(acc.sw.lat, point.lat), Min(acc.sw.lng, point.lng)))

\* a variant that takes both corners from the points of extreme latitude
calculateBoundsCoupled(points) ==
    IF Len(points) = 0 THEN Box(0, 0, 0, 0)
    ELSE LET hi == CHOOSE i \in 1..Len(points) : \A j \in 1..Len(points) : points[i].lat >= points[j].lat
             lo == CHOOSE i \in 1..Len(points) : \A j \in 1..Len(points) : points[i].lat <= points[j].lat
         IN  Box(points[hi].lat, points[hi].lng, points[lo].lat, points[lo].lng)
\* geocoding.ts:299-325
calculateBounds(points) ==
    IF Len(points) = 0 THEN Box(0, 0, 0, 0)
    ELSE BoundsLoop(points, Box(points[1].lat, points[1].lng, points[1].lat, points[1].lng))

\* a variant that looks at the latitude span alone
getZoomLevelLatOnly(bounds) ==
    LET latDiff == Abs(bounds.ne.lat - bounds.sw.lat)
    IN  IF latDiff > 100 THEN 6
        ELSE IF latDiff > 50 THEN 8
        ELSE IF latDiff > 10 THEN 10
        ELSE IF latDiff > 1 THEN 12
        ELSE 14
\* CalendarMap.tsx:54-66, the thresholds 10, 5, 1 and 0.1 degrees in tenths of a degree
getZoomLevel(bounds) ==
    LET latDiff == Abs(bounds.ne.lat - bounds.sw.lat)
        lngDiff == Abs(bounds.ne.lng - bounds.sw.lng)
        maxDiff == Max(latDiff, lngDiff)
    IN  IF latDiff = 0 /\ lngDiff = 0 THEN 14
        ELSE IF maxDiff > 100 THEN 6
        ELSE IF maxDiff > 50 THEN 8
        ELSE IF maxDiff > 10 THEN 10
        ELSE IF maxDiff > 1 THEN 12
        ELSE 14

\* the points and boxes the functions are applied to, in tenths of a degree
SamplePoints == {Point(lat, lng) : lat \in {-1, 0, 2}, lng \in {-3, 0, 5}}
PointLists == SeqsUpTo(SamplePoints, MaxPoints)
ZoomCorners == {0, 1, 2, 10, 11, 50, 51, 100, 101}
ZoomBoxes == {Box(a, b, c, d) : a \in ZoomCorners, b \in ZoomCorners, c \in {0, 1}, d \in {0, 1}}

\* the location strings the parser is applied to: a number as written and the value
\* it denotes in tenths of a degree, and the texts around a pair
Num(text, value) == [text |-> text, value |-> value]
NumTokens == {Num(<<"3">>, 30), Num(<<"-", "7", ".", "5">>, -75),
              Num(<<"9", "1">>, 910), Num(<<"4", ".">>, 40)}
Prefixes == {<<>>, <<"R">>, <<"R", " ">>, <<" ">>}
Suffixes == {<<>>, <<" ", "x">>, <<" ">>}
ParenSeps == {<<",">>, <<",", " ">>}
BareSeps == {<<",">>, <<",", " ">>, <<" ", ",">>}
Pads == {<<>>, <<" ">>}

ParenString(p, x, sep, y, q) == p \o <<"(">> \o x.text \o sep \o y.text \o <<")">> \o q
BareString(l, x, sep, y, r) == l \o x.text \o sep \o y.text \o r

ParenStrings ==
    {ParenString(p, x, sep, y, q) :
        p \in Prefixes, x \in NumTokens, sep \in ParenSeps, y \in NumTokens, q \in Suffixes}
BareStrings ==
    {BareString(l, x, sep, y, r) :
        l \in Pads, x \in NumTokens, sep \in BareSeps, y \in NumTokens, r \in Pads}
\* strings with no pair: "Ab", " aB ", "c", "R(3;5)", "3", "(3,5"
PlainStrings == {A_Ab, A_padded, A_c, <<"R", "(", "3", ";", "5", ")">>, <<"3">>,
                 <<"(", "3", ",", "5">>}
Locations == ParenStrings \cup BareStrings \cup PlainStrings

CalculateBounds(points) ==
    /\ lastOp = IdleOp
    /\ lastOp' = Op("bounds", points, Some(calculateBounds(points)), None, FALSE, FALSE, "")
    /\ UNCHANGED <<geocodeCache, now, apiKey, putLog, calls, batch, enrich, breaker, retry>>

GetZoomLevel(bounds) ==
    /\ lastOp = IdleOp
    /\ lastOp' = Op("zoom", bounds, Some(getZoomLevel(bounds)), None, FALSE, FALSE, "")
    /\ UNCHANGED <<geocodeCache, now, apiKey, putLog, calls, batch, enrich, breaker, retry>>

ParseLocation(location) ==
    /\ lastOp = IdleOp
    /\ lastOp' = Op("parse", location, Some(parseCoordinatesFromLocation(location)),
                    None, FALSE, FALSE, "")
    /\ UNCHANGED <<geocodeCache, now, apiKey, putLog, calls, batch, enrich, breaker, retry>>

(* filterEvents and sortEvents, calendar-service.ts:99-212. A CalendarEvent          *)
(* (src/unnamed/part_006:8-22) keeps the fields the two functions read; times are     *)
(* in minutes; an absent optional field or option is None.                            *)

Event(summary, location, startTime, endTime, status, attendees) ==
    [summary |-> summary, location |-> location, startTime |-> startTime,
     endTime |-> endTime, status |-> status, attendees |-> attendees]

\* EventFilterOptions
FilterOptions(startDate, endDate, hasLocation, locationKeyword, status, attendeeEmail, minDurationMinutes, maxDurationMinutes) ==
    [startDate |-> startDate, endDate |-> endDate, hasLocation |-> hasLocation,
     locationKeyword |-> locationKeyword, status |-> status, attendeeEmail |-> attendeeEmail,
     minDurationMinutes |-> minDurationMinutes, maxDurationMinutes |-> maxDurationMinutes]

\* String.prototype.includes
includes(s, sub) == \E i \in 0..(Len(s) - Len(sub)) : SubSeq(s, i + 1, i + Len(sub)) = sub

\* a string that is neither undefined, nor null, nor empty; a number that is neither
\* undefined nor 0
TruthyString(x) == x # None /\ x[1] # <<>>
TruthyNumber(x) == x # None /\ x[1] # 0

\* calendar-service.ts:103-161: the predicate handed to events.filter
KeepEvent(event, options) ==
    LET hasLocation == TruthyString(event.location) /\ Len(trim(event.location[1])) > 0
        durationMinutes == event.endTime - event.startTime
    IN  /\ ~(options.startDate # None /\ event.startTime < options.startDate[1])
        /\ ~(options.endDate # None /\ event.endTime > options.endDate[1])
        /\ options.hasLocation # None =>
              /\ ~(options.hasLocation[1] /\ ~hasLocation)
              /\ ~(~options.hasLocation[1] /\ hasLocation)
        /\ (TruthyString(options.locationKeyword) /\ TruthyString(event.location)) =>
              includes(toLowerCase(event.location[1]), toLowerCase(options.locationKeyword[1]))
        /\ ~(options.status # None /\ event.status \notin options.status[1])
        /\ (TruthyString(options.attendeeEmail) /\ event.attendees # None) =>
              \E i \in 1..Len(event.attendees[1]) :
                  toLowerCase(event.attendees[1][i]) = toLowerCase(options.attendeeEmail[1])
        /\ ~(TruthyNumber(options.minDurationMinutes)
                /\ durationMinutes < options.minDurationMinutes[1])
        /\ ~(TruthyNumber(options.maxDurationMinutes)
                /\ durationMinutes > options.maxDurationMinutes[1])

RECURSIVE filterEvents(_, _)
\* calendar-service.ts:99-162
filterEvents(events, options) ==
    IF events = <<>> THEN <<>>
    ELSE IF KeepEvent(Head(events), options)
    THEN <<Head(events)>> \o filterEvents(Tail(events), options)
    ELSE filterEvents(Tail(events), options)

RECURSIVE LexCompare(_, _)
\* the order of two sequences of numbers: -1, 0 or 1
LexCompare(a, b) ==
    IF a = <<>> /\ b = <<>> THEN 0
    ELSE IF a = <<>> THEN -1
    ELSE IF b = <<>> THEN 1
    ELSE IF Head(a) < Head(b) THEN -1
    ELSE IF Head(a) > Head(b) THEN 1
    ELSE LexCompare(Tail(a), Tail(b))

\* String.prototype.localeCompare on strings of letters: the alphabetical order of the
\* letters first, case disregarded, and between strings equal in that, lower case
\* before upper case
LetterRank == [c \in {Lower[i] : i \in 1..26} |-> CHOOSE i \in 1..26 : Lower[i] = c]
localeCompare(x, y) ==
    LET primary == LexCompare([i \in 1..Len(x) |-> LetterRank[toLowerCaseChar(x[i])]],
                              [i \in 1..Len(y) |-> LetterRank[toLowerCaseChar(y[i])]])
    IN  IF primary # 0 THEN primary
        ELSE LexCompare([i \in 1..Len(x) |-> IF x[i] \in UpperSet THEN 1 ELSE 0],
                        [i \in 1..Len(y) |-> IF y[i] \in UpperSet THEN 1 ELSE 0])

\* a.location || '' and a.attendees?.length || 0
LocationOrEmpty(event) == IF TruthyString(event.location) THEN event.location[1] ELSE <<>>
AttendeeCount(event) == IF event.attendees = None THEN 0 ELSE Len(event.attendees[1])

\* calendar-service.ts:174-209: the comparator handed to sorted.sort
Compare(a, b, sortBy, ascending) ==
    LET comparison ==
            IF sortBy = "startTime" THEN a.startTime - b.startTime
            ELSE IF sortBy = "endTime" THEN a.endTime - b.endTime
            ELSE IF sortBy = "title" THEN localeCompare(a.summary, b.summary)
            ELSE IF sortBy = "location"
            THEN localeCompare(LocationOrEmpty(a), LocationOrEmpty(b))
            ELSE IF sortBy = "duration"
            THEN (a.endTime - a.startTime) - (b.endTime - b.startTime)
            ELSE IF sortBy = "attendeeCount" THEN AttendeeCount(b) - AttendeeCount(a)
            ELSE 0
    IN  IF ascending THEN comparison ELSE 0 - comparison

\* calendar-service.ts:167-212: a copy of the list, sorted by the comparator;
\* Array.prototype.sort is stable, so an element's place is the number of elements
\* the comparator puts before it, or equal to it and earlier in the list
sortEvents(events, sortBy, ascending) ==
    LET n == Len(events)
        before(i) == Cardinality({j \in 1..n :
                        \/ Compare(events[j], events[i], sortBy, ascending) < 0
                        \/ Compare(events[j], events[i], sortBy, ascending) = 0 /\ j < i})
    IN  [k \in 1..n |-> events[CHOOSE i \in 1..n : before(i) = k - 1]]

\* the events and options the two functions are applied to
FilterUniverse ==
    {Event(<<"m">>, location, 1, endTime, status, None) :
        location \in {None, Some(<<>>), Some(A_Ab), Some(A_c)},
        endTime \in {2, 3}, status \in {"confirmed", "cancelled"}}
FilterLists == SeqsUpTo(FilterUniverse, MaxFiltered)
FilterOptionSets ==
    {FilterOptions(None, None, hasLocation, locationKeyword, status, None, minDuration, None) :
        hasLocation \in {None, Some(TRUE), Some(FALSE)},
        locationKeyword \in {None, Some(<<>>), Some(<<"B">>), Some(<<"c">>)},
        status \in {None, Some({"confirmed"})},
        minDuration \in {None, Some(2)}}

SortUniverse ==
    {Event(<<"a">>, Some(A_c), 1, 4, "confirmed", None),
     Event(<<"B">>, None, 2, 3, "confirmed", Some(<< <<"x">> >>)),
     Event(<<"A">>, Some(A_Ab), 3, 5, "confirmed", Some(<< <<"x">>, <<"y">> >>)),
     Event(<<"c">>, Some(A_ab), 1, 2, "tentative", Some(<< <<"y">> >>))}
SortLists == SeqsUpTo(SortUniverse, MaxSorted)
EventSortBy == {"startTime", "endTime", "title", "location", "duration", "attendeeCount"}

FilterCall(events, options) == [events |-> events, options |-> options]
SortCall(events, sortBy, ascending) == [events |-> events, sortBy |-> sortBy, ascending |-> ascending]

FilterEvents(events, options) ==
    /\ lastOp = IdleOp
    /\ lastOp' = Op("filter", FilterCall(events, options), Some(filterEvents(events, options)),
                    None, FALSE, FALSE, "")
    /\ UNCHANGED <<geocodeCache, now, apiKey, putLog, calls, batch, enrich, breaker, retry>>

SortEvents(events, sortBy, ascending) ==
    /\ lastOp = IdleOp
    /\ lastOp' = Op("sort", SortCall(events, sortBy, ascending),
                    Some(sortEvents(events, sortBy, ascending)), None, FALSE, FALSE, "")
    /\ UNCHANGED <<geocodeCache, now, apiKey, putLog, calls, batch, enrich, breaker, retry>>

InitFunctions == InitCache

NextFunctions ==
    \/ \E points \in PointLists : CalculateBounds(points)
    \/ \E bounds \in ZoomBoxes : GetZoomLevel(bounds)
    \/ \E location \in Locations : ParseLocation(location)
    \/ \E events \in FilterLists, options \in FilterOptionSets : FilterEvents(events, options)
    \/ \E events \in SortLists, sortBy \in EventSortBy, ascending \in BOOLEAN :
          SortEvents(events, sortBy, ascending)

SpecFunctions == InitFunctions /\ [][NextFunctions]_vars

-----------------------------------------------------------------------------
(* Claims about the pure functions *)

\* C17: for a non-empty list of points the box of calculateBounds has as its
\* north-east corner the largest latitude and the largest longitude of the list and
\* as its south-west corner the smallest of each, every point lying inside the box
\* and the south-west corner not beyond the north-east one; for the empty list the
\* box is {0,0}/{0,0}.
C17_BoundsPerAxis ==
    lastOp.op = "bounds" =>
        LET points == lastOp.addr
            b      == lastOp.value[1]
            idx    == 1..Len(points)
        IN  IF points = <<>> THEN b = Box(0, 0, 0, 0)
            ELSE /\ \E i \in idx : points[i].lat = b.ne.lat
                 /\ \E i \in idx : points[i].lng = b.ne.lng
                 /\ \E i \in idx : points[i].lat = b.sw.lat
                 /\ \E i \in idx : points[i].lng = b.sw.lng
                 /\ \A i \in idx : /\ b.sw.lat <= points[i].lat /\ points[i].lat <= b.ne.lat
                                   /\ b.sw.lng <= points[i].lng /\ points[i].lng <= b.ne.lng
                 /\ b.sw.lat <= b.ne.lat /\ b.sw.lng <= b.ne.lng

\* a box neither corner of which is one of the points it was computed from
C17_Witness ==
    /\ lastOp.op = "bounds"
    /\ Len(lastOp.addr) = MaxPoints
    /\ lastOp.value[1].ne \notin Range(lastOp.addr)
    /\ lastOp.value[1].sw \notin Range(lastOp.addr)

\* the larger of the two spans of a box, in tenths of a degree
SpanOf(b) == Max(Abs(b.ne.lat - b.sw.lat), Abs(b.ne.lng - b.sw.lng))

\* C18: getZoomLevel is 6 for a span above 10 degrees, 8 above 5, 10 above 1, 12
\* above 0.1 and 14 otherwise, the span being the larger of the latitude and the
\* longitude span; and no box of a larger span gets a higher zoom.
C18_ZoomStepFunction ==
    lastOp.op = "zoom" =>
        LET span == SpanOf(lastOp.addr)
            zoom == lastOp.value[1]
        IN  /\ zoom = (IF span > 100 THEN 6
                       ELSE IF span > 50 THEN 8
                       ELSE IF span > 10 THEN 10
                       ELSE IF span > 1 THEN 12
                       ELSE 14)
            /\ zoom \in {6, 8, 10, 12, 14}
            /\ \A other \in ZoomBoxes :
                   SpanOf(other) >= span => getZoomLevel(other) <= zoom

\* a box 0.2 degrees high and 10 degrees wide got zoom 8
C18_Witness ==
    /\ lastOp.op = "zoom"
    /\ Abs(lastOp.addr.ne.lat - lastOp.addr.sw.lat) = 2
    /\ Abs(lastOp.addr.ne.lng - lastOp.addr.sw.lng) = 100
    /\ lastOp.value = Some(8)

\* C19: of a string with a pair in parentheses, written with or without a space
\* after the comma, the parser returns the two numbers as coordinates and as address
\* the text before and after the parentheses, joined and trimmed; a string with no
\* pair is returned as it is, with no coordinates.
C19_ParenPair ==
    lastOp.op = "parse" =>
        /\ \A p \in Prefixes, x \in NumTokens, sep \in ParenSeps, y \in NumTokens, q \in Suffixes :
               lastOp.addr = ParenString(p, x, sep, y, q) =>
                   lastOp.value[1] = [address |-> trim(p \o q), found |-> TRUE,
                                      lat |-> x.value, lng |-> y.value]
        /\ lastOp.addr \in PlainStrings =>
               lastOp.value[1] = [address |-> lastOp.addr, found |-> FALSE, lat |-> 0, lng |-> 0]

\* "R (-7.5, 91) x" was parsed
C19_Witness ==
    /\ lastOp.op = "parse"
    /\ lastOp.addr = ParenString(<<"R", " ">>, Num(<<"-", "7", ".", "5">>, -75), <<",", " ">>,
                                 Num(<<"9", "1">>, 910), <<" ", "x">>)
    /\ lastOp.value[1].found
    /\ lastOp.value[1].address = <<"R", " ", " ", "x">>

\* C20: a string with no pair in parentheses is recognised as a bare pair exactly
\* when, trimmed, it is two numbers separated by a comma or by a comma and a space;
\* the coordinates are then the two numbers and the address is the string as given.
C20_BarePairTrimmed ==
    (lastOp.op = "parse" /\ lastOp.addr \in BareStrings \cup PlainStrings) =>
        LET isBare == \E x \in NumTokens, sep \in ParenSeps, y \in NumTokens :
                          trim(lastOp.addr) = BareString(<<>>, x, sep, y, <<>>)
        IN  /\ lastOp.value[1].found <=> isBare
            /\ lastOp.value[1].address = lastOp.addr
            /\ \A x \in NumTokens, sep \in ParenSeps, y \in NumTokens :
                   trim(lastOp.addr) = BareString(<<>>, x, sep, y, <<>>) =>
                       lastOp.value[1].lat = x.value /\ lastOp.value[1].lng = y.value

-----------------------------------------------------------------------------
(* Claims about what a resolution writes, and about concurrent resolutions *)

\* every entry of the cache after the step was an entry of the cache before it
NoEntryWritten == \A m \in 1..Len(geocodeCache') : \E j \in 1..Len(geocodeCache) : geocodeCache[j] = geocodeCache'[m]

\* the step deletes the entry of key k, which is older than its ttl, and nothing else
DeletesExpired(k) ==
    LET i == IndexOf(geocodeCache, k)
    IN  /\ i # 0
        /\ now - geocodeCache[i].timestamp > geocodeCache[i].ttl
        /\ k \notin CacheKeys(geocodeCache')
        /\ Len(geocodeCache') = Len(geocodeCache) - 1
        /\ NoEntryWritten

\* C21: a step of a resolution changes the cache in one of two ways only: the
\* return of a successful provider lookup writes the entry of its address, with the
\* location it returns; any other step (a call that throws for a blank address or a
\* missing credential, a call answered by the route from an embedded pair, a call
\* that suspends in fetch) writes no entry and at most deletes the expired entry of
\* its own key; and a provider reply that ends in a throw leaves the cache as it was.
C21_Step ==
    /\ (calls[1] # Free /\ calls'[1] = Free /\ lastOp'.value = None) =>
            geocodeCache' = geocodeCache
    /\ (lastOp' # lastOp /\ lastOp'.op = "post" /\ HasValidPair(lastOp'.addr)) =>
            geocodeCache' = geocodeCache
    /\ geocodeCache' # geocodeCache =>
          IF ProviderSuccessStep
          THEN LET i == IndexOf(geocodeCache', Normalized(calls[1].addr))
               IN  /\ i # 0
                   /\ Some(geocodeCache'[i].data) = lastOp'.value
                   /\ \A m \in 1..Len(geocodeCache') :
                          m # i => \E j \in 1..Len(geocodeCache) : geocodeCache[j] = geocodeCache'[m]
          ELSE DeletesExpired(Normalized(IF calls'[1] # Free THEN calls'[1].addr
                                                            ELSE lastOp'.addr))

C21_WriteOnlyOnSuccess == [][C21_Step]_vars

\* a geocodeAddress that threw for the missing credential had deleted the expired
\* entry of its key, another entry staying
C21_Witness ==
    /\ lastOp.op = "direct"
    /\ lastOp.error = Some(Error("GOOGLE_MAPS_API_KEY is not configured", <<>>))
    /\ lastOp.changed
    /\ Normalized(lastOp.addr) \notin CacheKeys(geocodeCache)
    /\ geocodeCache # <<>>

-----------------------------------------------------------------------------
(* Event enrichment: enrichEventsWithLocations, calendar-service.ts:217-240, as    *)
(* GET /api/events calls it (src/src/app/api/events/route.ts:112-122). An event is  *)
(* modelled by its location: None, or Some of a string.                             *)

EventLocations == {None, Some(A_empty), Some(A_Ab), Some(A_padded), Some(A_blank)}
EventLists == SeqsUpTo(EventLocations, MaxEvents)

RECURSIVE eventsWithLocation(_)
\* calendar-service.ts:220: events.filter((e) => e.location)
eventsWithLocation(events) ==
    IF events = <<>> THEN <<>>
    ELSE IF Head(events) # None /\ Head(events)[1] # <<>>
    THEN <<Head(events)[1]>> \o eventsWithLocation(Tail(events))
    ELSE eventsWithLocation(Tail(events))

\* what an event is returned with: geocoded, or geocodeError
Enriched(location, geocoded, geocodeError) ==
    [location |-> location, geocoded |-> geocoded, geocodeError |-> geocodeError]

RECURSIVE StartEnrich(_, _, _, _, _)
\* calendar-service.ts:223-225: map calls geocodeAddress for every event in turn, each
\* call running to its return, its throw or its suspension in fetch
StartEnrich(idx, cache, en, key, t) ==
    IF idx > Len(en.located) THEN [cache |-> cache, enrich |-> en]
    ELSE LET a == en.located[idx]
             o == geocodeAddressEnter(cache, a, key, t)
             e2 == IF o.st = "fetching"
                   THEN [en EXCEPT !.tasks = @ \cup {idx}, !.fetched = Append(@, a)]
                   ELSE IF o.st = "ok"
                   THEN [en EXCEPT !.enriched[idx] = Enriched(a, o.value, None)]
                   ELSE [en EXCEPT !.enriched[idx] = Enriched(a, None, Some(o.error[1].msg))]
         IN  StartEnrich(idx + 1, o.cache, e2, key, t)

\* calendar-service.ts:217-225: the call, up to its await of Promise.all
enrichEventsWithLocations(events) ==
    /\ enrich.pc = "idle"
    /\ LET located == eventsWithLocation(events)
           e0 == Enrich("running", events, located, {}, <<>>,
                        [i \in 1..Len(located) |-> Enriched(located[i], None, None)],
                        geocodeCache = <<>>)
           r  == StartEnrich(1, geocodeCache, e0, apiKey, now)
       IN  geocodeCache' = r.cache /\ enrich' = r.enrich
    /\ UNCHANGED <<now, apiKey, lastOp, putLog, calls, batch, breaker, retry>>

\* the provider's reply reaches the suspended geocodeAddress of one event
EnrichSettle(idx, r) ==
    /\ enrich.pc = "running"
    /\ idx \in enrich.tasks
    /\ LET a == enrich.located[idx]
           o == geocodeAddressResume(geocodeCache, a, r, now)
       IN  /\ geocodeCache' = o.cache
           /\ enrich' = [enrich EXCEPT
                  !.tasks = @ \ {idx},
                  !.enriched[idx] = IF o.st = "ok" THEN Enriched(a, o.value, None)
                                    ELSE Enriched(a, None, Some(o.error[1].msg))]
    /\ UNCHANGED <<now, apiKey, lastOp, putLog, calls, batch, breaker, retry>>

\* calendar-service.ts:222 and 239: Promise.all has resolved; the events are returned
EnrichReturn ==
    /\ enrich.pc = "running"
    /\ enrich.tasks = {}
    /\ enrich' = [enrich EXCEPT !.pc = "done"]
    /\ UNCHANGED <<geocodeCache, now, apiKey, lastOp, putLog, calls, batch, breaker, retry>>

\* the caller has taken the events; the next run may start
EnrichRelease ==
    /\ enrich.pc = "done"
    /\ enrich' = IdleEnrich
    /\ UNCHANGED <<geocodeCache, now, apiKey, lastOp, putLog, calls, batch, breaker, retry>>

InitEnrich == InitResolve

NextEnrich ==
    \/ \E b \in BOOLEAN : SetApiKey(b)
    \/ \E events \in EventLists : enrichEventsWithLocations(events)
    \/ \E idx \in 1..MaxEvents, r \in Responses : EnrichSettle(idx, r)
    \/ EnrichReturn
    \/ EnrichRelease

SpecEnrich == InitEnrich /\ [][NextEnrich]_vars

\* C22: in an enrichment run that starts on an empty cache the provider is called at
\* most once for a location string, however many events carry it, and the lookups
\* suspended in fetch never exceed the concurrency of a batch.
C22_EnrichThroughBatch ==
    /\ Cardinality(enrich.tasks) <= DEFAULT_PARALLEL
    /\ enrich.fresh => \A a \in Range(enrich.located) : Count(enrich.fetched, a) <= 1

-----------------------------------------------------------------------------
(* Concurrent resolutions: callers of geocodeAddress in every slot and a batch, each *)
(* suspended only in fetch, their steps interleaved in every order                   *)

ConcAddrs == {A_padded, A_bare}
ConcBatchAddrs == {A_Ab, A_c}
ConcBatchInputs == {<<A_Ab, A_c>>}
\* the provider has no candidate, or has candidates
ConcResponses == {Response("json", "200", <<>>, <<>>),
                  Response("json", "200", <<>>, <<GoodCandidate, FarCandidate>>)}

InitConcurrent == InitResolve /\ apiKey = TRUE

NextConcurrent ==
    \/ Tick
    \/ \E s \in Slots, a \in ConcAddrs : ResolveOne(s, a)
    \/ \E s \in Slots, r \in ConcResponses : ProviderReply(s, r)
    \/ \E addresses \in ConcBatchInputs : BatchGeocode(addresses, 1)
    \/ \E a \in ConcBatchAddrs, r \in ConcResponses : BatchSettle(a, r)
    \/ BatchChunkDone
    \/ BatchWake
    \/ BatchRelease

SpecConcurrent == InitConcurrent /\ [][NextConcurrent]_vars

\* C23: whatever the interleaving, the cache holds at most MAX_CACHE_SIZE entries and
\* one entry at most for a normalized key, and every entry is whole: the key of the
\* address in its data, the ttl of the cache, and a timestamp that is the time of a
\* put; and when a suspended geocodeAddress returns the provider's location, the
\* cache holds exactly one entry for its key, with that location and the current time,
\* also when another call for the same address is still suspended or wrote before it.
C23_EntriesWhole ==
    /\ Len(geocodeCache) <= MAX_CACHE_SIZE
    /\ \A i, j \in 1..Len(geocodeCache) : i # j => geocodeCache[i].key # geocodeCache[j].key
    /\ \A i \in 1..Len(geocodeCache) :
          /\ DOMAIN geocodeCache[i] = {"key", "data", "timestamp", "ttl"}
          /\ geocodeCache[i].key = Normalized(geocodeCache[i].data.address)
          /\ geocodeCache[i].ttl = CACHE_TTL
          /\ geocodeCache[i].timestamp \in 0..now

C23_ReplyStep ==
    \A s \in Slots :
        (calls[s] # Free /\ calls'[s] = Free /\ lastOp'.value # None) =>
            LET k == Normalized(calls[s].addr)
            IN  /\ Cardinality({i \in 1..Len(geocodeCache') : geocodeCache'[i].key = k}) = 1
                /\ geocodeCache'[IndexOf(geocodeCache', k)].data = lastOp'.value[1]
                /\ geocodeCache'[IndexOf(geocodeCache', k)].timestamp = now

C23_ConcurrentConsistency == []C23_EntriesWhole /\ [][C23_ReplyStep]_vars

\* two calls of geocodeAddress(" aB ") were suspended in fetch together; the first has
\* returned and written the entry, the second is still suspended, and the cache is full
C23_Witness ==
    /\ calls[1] = Free
    /\ calls[2] = InFlight("direct", A_padded)
    /\ lastOp.op = "direct" /\ lastOp.addr = A_padded /\ lastOp.fetched /\ lastOp.value # None
    /\ Len(geocodeCache) = MAX_CACHE_SIZE
    /\ Normalized(A_padded) \in CacheKeys(geocodeCache)

-----------------------------------------------------------------------------
(* Claims about filterEvents and sortEvents *)

\* C24: with a non-empty locationKeyword, every event filterEvents returns has a
\* location that contains the keyword, case disregarded, and every event that has
\* such a location and passes the other filters is returned.
C24_KeywordFilter ==
    (lastOp.op = "filter" /\ TruthyString(lastOp.addr.options.locationKeyword)) =>
        LET events  == lastOp.addr.events
            options == lastOp.addr.options
            keyword == toLowerCase(options.locationKeyword[1])
            result  == lastOp.value[1]
            Matches(e) == /\ e.location # None
                          /\ includes(toLowerCase(e.location[1]), keyword)
            others  == [options EXCEPT !.locationKeyword = None]
        IN  /\ \A k \in 1..Len(result) : Matches(result[k])
            /\ \A i \in 1..Len(events) :
                   (Matches(events[i]) /\ filterEvents(<<events[i]>>, others) # <<>>)
                       => events[i] \in Range(result)

\* the key of an event under a sort key does not exceed that of another
KeyLeq(a, b, sortBy) ==
    IF sortBy = "startTime" THEN a.startTime <= b.startTime
    ELSE IF sortBy = "endTime" THEN a.endTime <= b.endTime
    ELSE IF sortBy = "title" THEN localeCompare(a.summary, b.summary) <= 0
    ELSE IF sortBy = "location" THEN localeCompare(LocationOrEmpty(a), LocationOrEmpty(b)) <= 0
    ELSE IF sortBy = "duration" THEN a.endTime - a.startTime <= b.endTime - b.startTime
    ELSE AttendeeCount(a) <= AttendeeCount(b)

\* C25: sortEvents returns the events it was given, each as often as given, in
\* non-decreasing order of the sort key when ascending and in non-increasing order
\* when not, for each of the six sort keys.
C25_SortedByKey ==
    lastOp.op = "sort" =>
        LET events == lastOp.addr.events
            sortBy == lastOp.addr.sortBy
            result == lastOp.value[1]
        IN  /\ Len(result) = Len(events)
            /\ \A e \in Range(events) : Count(result, e) = Count(events, e)
            /\ \A k \in 1..(Len(result) - 1) :
                   IF lastOp.addr.ascending
                   THEN KeyLeq(result[k], result[k + 1], sortBy)
                   ELSE KeyLeq(result[k + 1], result[k], sortBy)

-----------------------------------------------------------------------------
(* Claims about the counts of the batch reply *)

\* C26: in a 200 reply of the batch route, geocoded is the number of distinct
\* addresses resolved and failed is the number of distinct non-blank addresses of
\* the request that were not resolved, so failed is 0 when every address resolved,
\* however often an address is repeated in the request.
C26_CountsOfDistinct ==
    (batch.via = "post" /\ batch.pc = "done") =>
        /\ batch.geocoded = Cardinality(DOMAIN batch.results)
        /\ batch.failed = Cardinality(Range(validAddresses(batch.request)) \ DOMAIN batch.results)

-----------------------------------------------------------------------------
(* CircuitBreaker, error-handler.ts:242-298: one breaker, whose callers call execute  *)
(* one after the other and may call reset at any time, also while an execute awaits   *)
(* fn. The clock starts at 1: Date.now() is never 0.                                  *)

\* error-handler.ts:255-257: this.lastFailureTime && Date.now() - this.lastFailureTime
\* > this.resetTimeoutMs
TimeoutElapsedAtEqual(b, t) ==
    /\ b.lastFailureTime # None
    /\ b.lastFailureTime[1] # 0
    /\ t - b.lastFailureTime[1] >= RESET_TIMEOUT_MS
TimeoutElapsed(b, t) ==
    /\ b.lastFailureTime # None
    /\ b.lastFailureTime[1] # 0
    /\ t - b.lastFailureTime[1] > RESET_TIMEOUT_MS

\* error-handler.ts:252-268: execute up to its await: an OPEN breaker whose timeout
\* has elapsed becomes HALF_OPEN with a zero count; a breaker then OPEN throws; any
\* other calls fn
BreakerExecute ==
    /\ breaker.pc = "idle"
    /\ breaker.result = ""
    /\ LET trial == breaker.state = "OPEN" /\ TimeoutElapsed(breaker, now)
           b1 == IF trial
                 THEN [breaker EXCEPT !.state = "HALF_OPEN", !.failureCount = 0, !.trial = TRUE]
                 ELSE [breaker EXCEPT !.trial = FALSE]
       IN  breaker' = IF b1.state = "OPEN"
                      THEN [b1 EXCEPT !.result = "Circuit breaker is OPEN"]
                      ELSE [b1 EXCEPT !.pc = "awaiting"]
    /\ UNCHANGED <<geocodeCache, now, apiKey, lastOp, putLog, calls, batch, enrich, retry>>

\* error-handler.ts:268-286: fn settles; a success closes a HALF_OPEN breaker and
\* clears its count; a failure counts, stamps the time and opens the breaker at
\* maxFailures
BreakerSettle(ok) ==
    /\ breaker.pc = "awaiting"
    /\ breaker' =
          IF ok
          THEN IF breaker.state = "HALF_OPEN"
               THEN [breaker EXCEPT !.state = "CLOSED", !.failureCount = 0, !.pc = "idle",
                                    !.result = "ok", !.consecutive = 0]
               ELSE [breaker EXCEPT !.pc = "idle", !.result = "ok", !.consecutive = 0]
          ELSE [breaker EXCEPT !.failureCount = @ + 1,
                               !.lastFailureTime = Some(now),
                               !.state = IF breaker.failureCount + 1 >= MAX_FAILURES
                                         THEN "OPEN" ELSE @,
                               !.pc = "idle", !.result = "failed",
                               !.consecutive = @ + 1]
    /\ UNCHANGED <<geocodeCache, now, apiKey, lastOp, putLog, calls, batch, enrich, retry>>

\* error-handler.ts:293-297
BreakerReset ==
    /\ breaker.result = ""
    /\ breaker' = [breaker EXCEPT !.state = "CLOSED", !.failureCount = 0,
                                  !.lastFailureTime = None, !.result = "reset",
                                  !.consecutive = 0]
    /\ UNCHANGED <<geocodeCache, now, apiKey, lastOp, putLog, calls, batch, enrich, retry>>

\* the caller has taken note of how its call ended
BreakerRelease ==
    /\ breaker.result # ""
    /\ breaker' = [breaker EXCEPT !.result = ""]
    /\ UNCHANGED <<geocodeCache, now, apiKey, lastOp, putLog, calls, batch, enrich, retry>>

InitBreaker ==
    /\ geocodeCache = <<>>
    /\ now = 1
    /\ apiKey = TRUE
    /\ lastOp = IdleOp
    /\ putLog = <<>>
    /\ calls = <<>>
    /\ batch = IdleBatch
    /\ enrich = IdleEnrich
    /\ breaker = NewBreaker
    /\ retry = IdleRetry

NextBreaker ==
    \/ Tick
    \/ BreakerExecute
    \/ \E ok \in BOOLEAN : BreakerSettle(ok)
    \/ BreakerReset
    \/ BreakerRelease

SpecBreaker == InitBreaker /\ [][NextBreaker]_vars

\* C27: a CLOSED breaker becomes OPEN only after maxFailures failed executes in a
\* row, and a successful execute of a CLOSED breaker leaves its failure count at 0,
\* so failures with a success between them do not open it.
C27_Step ==
    /\ (breaker.state = "CLOSED" /\ breaker'.state = "OPEN")
          => breaker'.consecutive >= MAX_FAILURES
    /\ (breaker.pc = "awaiting" /\ breaker.state = "CLOSED" /\ breaker'.result = "ok")
          => breaker'.failureCount = 0
C27_OpensOnConsecutiveFailures == [][C27_Step]_vars

\* C28: an execute of an OPEN breaker whose timeout has elapsed calls fn with the
\* breaker HALF_OPEN; when that call succeeds the breaker is CLOSED with a zero
\* count, and when it fails the breaker is OPEN again.
C28_Step ==
    /\ (breaker.state = "OPEN" /\ breaker.result = "" /\ breaker.lastFailureTime # None
          /\ now - breaker.lastFailureTime[1] > RESET_TIMEOUT_MS
          /\ breaker' # breaker /\ breaker'.result # "reset")
          => (breaker'.pc = "awaiting" /\ breaker'.state = "HALF_OPEN")
    /\ (breaker.pc = "awaiting" /\ breaker.trial /\ breaker.state = "HALF_OPEN"
          /\ breaker'.result = "ok")
          => (breaker'.state = "CLOSED" /\ breaker'.failureCount = 0)
    /\ (breaker.pc = "awaiting" /\ breaker.trial /\ breaker.state = "HALF_OPEN"
          /\ breaker'.result = "failed")
          => breaker'.state = "OPEN"
C28_TrialCall == [][C28_Step]_vars

\* C29: an execute of an OPEN breaker whose timeout has not elapsed throws 'Circuit
\* breaker is OPEN', does not call fn and changes neither the state, nor the failure
\* count, nor the time of the last failure; reset leaves any breaker CLOSED with a
\* zero count.
C29_Step ==
    /\ (breaker.state = "OPEN" /\ breaker.result = "" /\ breaker.lastFailureTime # None
          /\ now - breaker.lastFailureTime[1] <= RESET_TIMEOUT_MS
          /\ breaker' # breaker /\ breaker'.result # "reset")
          => /\ breaker'.result = "Circuit breaker is OPEN"
             /\ breaker'.pc = "idle"
             /\ breaker'.state = "OPEN"
             /\ breaker'.failureCount = breaker.failureCount
             /\ breaker'.lastFailureTime = breaker.lastFailureTime
    /\ (breaker.result = "" /\ breaker'.result = "reset")
          => (breaker'.state = "CLOSED" /\ breaker'.failureCount = 0)
C29_OpenRejects == [][C29_Step]_vars

\* a call rejected when exactly resetTimeoutMs has passed since the last failure
C29_Witness ==
    /\ breaker.state = "OPEN"
    /\ breaker.result = "Circuit breaker is OPEN"
    /\ breaker.lastFailureTime # None
    /\ now - breaker.lastFailureTime[1] = RESET_TIMEOUT_MS

-----------------------------------------------------------------------------
(* retryWithBackoff, error-handler.ts:215-237: one invocation at a time. What fn       *)
(* returns or throws carries the number of the invocation that produced it.           *)

RetryCounts == 0..MaxRetries
RetryDelays == {0, 1, 100}
\* what an invocation of fn ends with: a value, an Error thrown, or something else
\* thrown
FnOutcomes == {"value", "Error", "other"}

RECURSIVE Pow2(_)
\* Math.pow(2, attempt)
Pow2(n) == IF n = 0 THEN 1 ELSE 2 * Pow2(n - 1)

\* error-handler.ts:226: error instanceof Error ? error : new Error(String(error))
AsError(isError, n) == [invocation |-> n, wrapped |-> ~isError]

\* error-handler.ts:215-224: the loop is entered and fn invoked when 0 < maxRetries;
\* otherwise line 236 throws, lastError being null
RetryStart(maxRetries, initialDelayMs) ==
    /\ retry.pc = "idle"
    /\ retry' = IF 0 < maxRetries
                THEN Retry("calling", maxRetries, initialDelayMs, 0, None, 1, <<>>, None, None)
                ELSE Retry("thrown", maxRetries, initialDelayMs, 0, None, 0, <<>>, None,
                           Some("Max retries exceeded"))
    /\ UNCHANGED <<geocodeCache, now, apiKey, lastOp, putLog, calls, batch, enrich, breaker>>

\* error-handler.ts:223-236: fn settles; its value is returned; what it throws is
\* kept as lastError, and a sleep follows unless the attempt was the last, after
\* which the loop ends and lastError is thrown
RetryFnSettle(outcome) ==
    /\ retry.pc = "calling"
    /\ retry' =
          IF outcome = "value"
          THEN [retry EXCEPT !.pc = "returned", !.value = Some(retry.invoked)]
          ELSE LET lastError == Some(AsError(outcome = "Error", retry.invoked))
               IN  IF retry.attempt < retry.maxRetries - 1
                   THEN [retry EXCEPT !.pc = "sleeping", !.lastError = lastError,
                                      !.delays = Append(@, retry.initialDelayMs
                                                             * Pow2(retry.attempt))]
                   ELSE [retry EXCEPT !.pc = "thrown", !.lastError = lastError,
                                      !.attempt = @ + 1, !.error = lastError]
    /\ UNCHANGED <<geocodeCache, now, apiKey, lastOp, putLog, calls, batch, enrich, breaker>>

\* error-handler.ts:231 and 222-224: the timer fires, attempt++ and, attempt being
\* below maxRetries, fn is invoked again
RetryWake ==
    /\ retry.pc = "sleeping"
    /\ retry' = IF retry.attempt + 1 < retry.maxRetries
                THEN [retry EXCEPT !.pc = "calling", !.attempt = @ + 1, !.invoked = @ + 1]
                ELSE [retry EXCEPT !.pc = "thrown", !.attempt = @ + 1,
                                   !.error = retry.lastError]
    /\ UNCHANGED <<geocodeCache, now, apiKey, lastOp, putLog, calls, batch, enrich, breaker>>

\* the caller has taken the outcome
RetryRelease ==
    /\ retry.pc \in {"returned", "thrown"}
    /\ retry' = IdleRetry
    /\ UNCHANGED <<geocodeCache, now, apiKey, lastOp, putLog, calls, batch, enrich, breaker>>

InitRetry == InitCache

NextRetry ==
    \/ \E maxRetries \in RetryCounts, initialDelayMs \in RetryDelays :
          RetryStart(maxRetries, initialDelayMs)
    \/ \E outcome \in FnOutcomes : RetryFnSettle(outcome)
    \/ RetryWake
    \/ RetryRelease

SpecRetry == InitRetry /\ [][NextRetry]_vars

\* C30: when retryWithBackoff has ended, it has invoked fn at least once and at most
\* maxRetries times; it returned the value of its last invocation, the only
\* successful one, or it threw the error of invocation maxRetries; and it slept once
\* before every invocation but the first, and not after the last.
C30_RetryOutcome ==
    retry.pc \in {"returned", "thrown"} =>
        /\ retry.invoked >= 1
        /\ retry.invoked <= retry.maxRetries
        /\ retry.pc = "returned" => retry.value = Some(retry.invoked)
        /\ retry.pc = "thrown" =>
              /\ retry.invoked = retry.maxRetries
              /\ retry.error \in {Some(AsError(TRUE, retry.invoked)),
                                   Some(AsError(FALSE, retry.invoked))}
        /\ Len(retry.delays) = retry.invoked - 1

=============================================================================
